---- MODULE Spec2Model ----
(***************************************************************************)
(* A model of app/main.py: the HTTP/1.1 request parser, the route table,   *)
(* the response wrapper, the handlers and the per-connection loop of       *)
(* HTTPServer.handle_client.                                               *)
(*                                                                         *)
(* Text (str and bytes alike; every character used here is ASCII, so the   *)
(* byte length of a text is its length) is a sequence of one-character     *)
(* strings.  An Optional value is a sequence of length 0 (None) or 1.      *)
(***************************************************************************)
EXTENDS Integers, Sequences, FiniteSets, TLC

(***************************************************************************)
(* Bounds                                                                  *)
(***************************************************************************)
\* the number of non-empty reads a peer sends on one connection
MaxReads == 2

(***************************************************************************)
(* str primitives of the Python runtime used by the source                 *)
(***************************************************************************)
StartsAt(s, sep, i) ==
    /\ i + Len(sep) - 1 <= Len(s)
    /\ SubSeq(s, i, i + Len(sep) - 1) = sep

\* str.find: the least index at which sep occurs in s, 0 when it does not
Find(s, sep) ==
    LET I == {i \in 1..Len(s) : StartsAt(s, sep, i)}
    IN  IF I = {} THEN 0 ELSE CHOOSE i \in I : \A j \in I : i <= j

\* sep in s
Contains(s, sep) == Find(s, sep) # 0

\* str.split(sep): always at least one part
RECURSIVE split(_, _)
split(s, sep) ==
    LET i == Find(s, sep)
    IN  IF i = 0
        THEN <<s>>
        ELSE <<SubSeq(s, 1, i - 1)>> \o split(SubSeq(s, i + Len(sep), Len(s)), sep)

\* str.count of a one-character text
count(s, ch) == Cardinality({i \in 1..Len(s) : s[i] = ch})

\* str.removesuffix
removesuffix(s, suf) ==
    IF /\ Len(suf) > 0
       /\ Len(s) >= Len(suf)
       /\ SubSeq(s, Len(s) - Len(suf) + 1, Len(s)) = suf
    THEN SubSeq(s, 1, Len(s) - Len(suf))
    ELSE s

\* str(n) of a natural number: its decimal digits
Digit(d) == <<"0", "1", "2", "3", "4", "5", "6", "7", "8", "9">>[d + 1]

RECURSIVE str(_)
str(n) == IF n < 10 THEN <<Digit(n)>> ELSE str(n \div 10) \o <<Digit(n % 10)>>

(***************************************************************************)
(* Constants of the source                                                 *)
(***************************************************************************)
CRLF == <<"\r", "\n">>
SPACE == <<" ">>
SLASH == <<"/">>
COLON_SPACE == <<":", " ">>
COMMA_SPACE == <<",", " ">>
HTTP11 == <<"H", "T", "T", "P", "/", "1", ".", "1">>

RESP_LINE_200 == HTTP11 \o <<" ", "2", "0", "0", " ", "O", "K">>
RESP_LINE_201 == HTTP11 \o <<" ", "2", "0", "1", " ", "C", "r", "e", "a", "t", "e", "d">>

GZIP == <<"g", "z", "i", "p">>
SUPPORTED_ENCODINGS == <<GZIP>>

\* HTTPHeader
USER_AGENT == <<"U", "s", "e", "r", "-", "A", "g", "e", "n", "t">>
ACCEPT_ENCODING ==
    <<"A", "c", "c", "e", "p", "t", "-", "E", "n", "c", "o", "d", "i", "n", "g">>
CONTENT_ENCODING ==
    <<"C", "o", "n", "t", "e", "n", "t", "-", "E", "n", "c", "o", "d", "i", "n", "g">>
CONTENT_TYPE == <<"C", "o", "n", "t", "e", "n", "t", "-", "T", "y", "p", "e">>
CONTENT_LENGTH ==
    <<"C", "o", "n", "t", "e", "n", "t", "-", "L", "e", "n", "g", "t", "h">>

\* HTTPMethod
GET == <<"G", "E", "T">>
POST == <<"P", "O", "S", "T">>
PUT == <<"P", "U", "T">>
PATCH == <<"P", "A", "T", "C", "H">>
DELETE == <<"D", "E", "L", "E", "T", "E">>
HTTPMethod == {GET, POST, PUT, PATCH, DELETE}

TEXT_PLAIN == <<"t", "e", "x", "t", "/", "p", "l", "a", "i", "n">>
OCTET_STREAM ==
    <<"a", "p", "p", "l", "i", "c", "a", "t", "i", "o", "n", "/",
      "o", "c", "t", "e", "t", "-", "s", "t", "r", "e", "a", "m">>
BAD_REQUEST == <<"B", "a", "d", " ", "R", "e", "q", "u", "e", "s", "t">>
NOT_FOUND == <<"N", "o", "t", " ", "F", "o", "u", "n", "d">>

\* the route prefixes of HTTPServer.__init__
HOME == <<"/">>
ECHO == <<"/", "e", "c", "h", "o">>
USER_AGENT_PATH == <<"/", "u", "s", "e", "r", "-", "a", "g", "e", "n", "t">>
FILES == <<"/", "f", "i", "l", "e", "s">>

\* self.routes: method -> route prefix -> handler
routes ==
    (GET :> (HOME :> "home" @@ ECHO :> "echo"
             @@ USER_AGENT_PATH :> "user_agent" @@ FILES :> "get_file"))
    @@ (POST :> (FILES :> "post_file"))

(***************************************************************************)
(* extract_params and parse_request                                        *)
(***************************************************************************)
None == <<>>
Some(v) == <<v>>

\* a variant that takes everything after the first segment as the parameter
extract_params_rest(requested_target) ==
    IF count(requested_target, "/") = 1
    THEN None
    ELSE LET parts == split(requested_target, SLASH)
         IN  IF Len(parts) < 3
             THEN Some(parts[Len(parts)])
             ELSE Some(SubSeq(requested_target, Len(parts[2]) + 3,
                              Len(requested_target)))

extract_params(requested_target) ==
    IF count(requested_target, "/") = 1
    THEN None
    ELSE LET parts == split(requested_target, SLASH)
         IN  Some(parts[Len(parts)])

Raise(e) == [exc |-> e]
Raised(r) == "exc" \in DOMAIN r

\* a variant without the route check
target_unchecked(method, target) == TRUE

\* target in self.routes[method]
target_registered(method, target) == target \in DOMAIN routes[method]

\* the for loop of parse_request over the lines after the request line:
\* acc is [headers, body], or a raised exception
RECURSIVE parse_lines(_, _)
parse_lines(data, acc) ==
    IF data = <<>> \/ Raised(acc)
    THEN acc
    ELSE LET line == Head(data)
             kv == split(line, COLON_SPACE)
         IN  IF Contains(line, COLON_SPACE)
             THEN IF Len(kv) # 2
                  THEN Raise("ValueError")
                  ELSE parse_lines(Tail(data),
                         [acc EXCEPT !.headers =
                            [k \in DOMAIN acc.headers \cup {kv[1]} |->
                                IF k = kv[1] THEN kv[2] ELSE acc.headers[k]]])
             ELSE IF line = <<>>
                  THEN parse_lines(Tail(data), acc)
                  ELSE parse_lines(Tail(data), [acc EXCEPT !.body = line])

parse_request(req) ==
    LET data == split(req, CRLF)
        req_line == Head(data)
        toks == split(req_line, SPACE)
    IN  IF Len(toks) # 3
        THEN Raise("ValueError")
        ELSE
        LET raw_method == toks[1]
            raw_target == toks[2]
            version == toks[3]
            maybe_params == extract_params(raw_target)
            target == IF maybe_params # None
                      THEN removesuffix(raw_target, SLASH \o maybe_params[1])
                      ELSE raw_target
        IN  IF raw_method \notin HTTPMethod
            THEN Raise("ValueError")
            ELSE IF raw_method \notin DOMAIN routes
            THEN Raise("KeyError")
            ELSE IF ~target_registered(raw_method, target)
            THEN Raise("TargetNotFoundException")
            ELSE
            LET acc == parse_lines(Tail(data),
                                   [headers |-> [k \in {} |-> <<>>], body |-> <<>>])
            IN  IF Raised(acc)
                THEN acc
                ELSE [method |-> raw_method, target |-> target,
                      headers |-> acc.headers, body |-> acc.body,
                      params |-> maybe_params, version |-> version]


(***************************************************************************)
(* The handlers.  A handler returns [ret |-> bytes] or raises.  fs is the   *)
(* content of self.directory: file name -> text of the file.               *)
(***************************************************************************)
Return(b) == [ret |-> b]

\* open(path, "r").read(): text mode translates "\r\n" and "\r" to "\n"
RECURSIVE universal_newlines(_)
universal_newlines(s) ==
    IF s = <<>> THEN <<>>
    ELSE IF Head(s) = "\r"
         THEN IF Len(s) > 1 /\ s[2] = "\n"
              THEN <<"\n">> \o universal_newlines(SubSeq(s, 3, Len(s)))
              ELSE <<"\n">> \o universal_newlines(Tail(s))
         ELSE <<Head(s)>> \o universal_newlines(Tail(s))

home(request) == Return(<<>>)

\* `not request.params`: None or the empty string
no_params(request) == request.params = None \/ request.params[1] = <<>>

\* f"{self.directory}/{name}" names a directory, whatever self.directory
\* holds: open() of it raises IsADirectoryError, for reading and for writing
is_directory(name) == name \in {<<".">>, <<".", ".">>}

\* a variant that answers a request without parameter with an empty body
echo_unchecked(request) ==
    Return(IF request.params = None THEN <<>> ELSE request.params[1])

echo(request) ==
    IF request.params = None
    THEN Raise("MissingParamsException")
    ELSE Return(request.params[1])

get_file(request, fs) ==
    IF no_params(request)
    THEN Raise("MissingParamsException")
    ELSE IF request.params[1] \notin DOMAIN fs \/ is_directory(request.params[1])
         THEN Raise("ResourceNotFoundException")
         ELSE Return(universal_newlines(fs[request.params[1]]))

post_file(request) ==
    IF no_params(request)
    THEN Raise("MissingParamsException")
    ELSE IF is_directory(request.params[1])
         THEN Raise("IsADirectoryError")
         ELSE Return(<<>>)

\* a variant that writes whenever the request has a parameter, empty or not
post_file_write_unchecked(request, fs) ==
    IF request.params = None
    THEN fs
    ELSE [n \in DOMAIN fs \cup {request.params[1]} |->
            IF n = request.params[1] THEN request.body ELSE fs[n]]

\* the files after post_file: open(path, "w") truncates, f.write(request.body)
post_file_write(request, fs) ==
    IF no_params(request) \/ is_directory(request.params[1])
    THEN fs
    ELSE [n \in DOMAIN fs \cup {request.params[1]} |->
            IF n = request.params[1] THEN request.body ELSE fs[n]]

user_agent(request) ==
    IF USER_AGENT \notin DOMAIN request.headers
    THEN Raise("MissingHeaderException")
    ELSE Return(request.headers[USER_AGENT])

\* the body of the function a route name stands for
func(name, request, fs) ==
    CASE name = "home" -> home(request)
      [] name = "echo" -> echo(request)
      [] name = "get_file" -> get_file(request, fs)
      [] name = "post_file" -> post_file(request)
      [] name = "user_agent" -> user_agent(request)

\* the arguments of the @route(...) decoration of each handler
retcode(name) == IF name = "post_file" THEN 201 ELSE 200

declared_content_type(name) ==
    IF name \in {"get_file", "post_file"} THEN OCTET_STREAM ELSE TEXT_PLAIN

(***************************************************************************)
(* make_bad_request and the wrapper of HTTPServer.route                    *)
(***************************************************************************)
\* a variant that adds a Content-Length header to the error response
make_bad_request_with_length(status_code, reason) ==
    HTTP11 \o SPACE \o str(status_code) \o SPACE \o reason \o CRLF
    \o CONTENT_LENGTH \o COLON_SPACE \o str(0) \o CRLF \o CRLF

make_bad_request(status_code, reason) ==
    HTTP11 \o SPACE \o str(status_code) \o SPACE \o reason \o CRLF \o CRLF

InSeq(v, seq) == \E i \in 1..Len(seq) : seq[i] = v

\* a variant that takes the first listed encoding, supported or not
content_encoding_first_listed(requested_content_encodings) ==
    Some(Head(requested_content_encodings))

\* next(filter(lambda enc: enc in SUPPORTED_ENCODINGS, encodings)),
\* None for StopIteration
content_encoding_match(requested_content_encodings) ==
    LET I == {i \in 1..Len(requested_content_encodings) :
                 InSeq(requested_content_encodings[i], SUPPORTED_ENCODINGS)}
    IN  IF I = {}
        THEN None
        ELSE Some(requested_content_encodings[CHOOSE i \in I : \A j \in I : i <= j])

\* a variant that counts the blank line into the length
content_length_line_plus_crlf(ret) ==
    CONTENT_LENGTH \o COLON_SPACE \o str(Len(ret) + 2) \o CRLF

content_length_line(ret) ==
    CONTENT_LENGTH \o COLON_SPACE \o str(Len(ret)) \o CRLF

content_type_line(name, request, ret) ==
    IF CONTENT_TYPE \in DOMAIN request.headers
    THEN CONTENT_TYPE \o COLON_SPACE \o request.headers[CONTENT_TYPE] \o CRLF
    ELSE IF Len(ret) > 0
         THEN CONTENT_TYPE \o COLON_SPACE \o declared_content_type(name) \o CRLF
         ELSE <<>>

content_encoding_line(request) ==
    IF ACCEPT_ENCODING \in DOMAIN request.headers
    THEN LET m == content_encoding_match(
                     split(request.headers[ACCEPT_ENCODING], COMMA_SPACE))
         IN  IF m # None
             THEN CONTENT_ENCODING \o COLON_SPACE \o m[1] \o CRLF
             ELSE <<>>
    ELSE <<>>

wrapper(name, request, fs) ==
    LET r == func(name, request, fs)
    IN  IF Raised(r)
        THEN IF r.exc \in {"MissingParamsException", "MissingHeaderException"}
             THEN Return(make_bad_request(400, BAD_REQUEST))
             ELSE IF r.exc = "ResourceNotFoundException"
                  THEN Return(make_bad_request(404, NOT_FOUND))
                  ELSE r
        ELSE IF retcode(name) \notin {200, 201}
        THEN Raise("ValueError")
        ELSE Return(
                (IF retcode(name) = 200 THEN RESP_LINE_200 ELSE RESP_LINE_201)
                \o CRLF
                \o content_type_line(name, request, r.ret)
                \o content_encoding_line(request)
                \o content_length_line(r.ret)
                \o CRLF
                \o r.ret)

(***************************************************************************)
(* The messages the peers send.  Each read returns one complete message.   *)
(***************************************************************************)
Conns == {1, 2}

BREW == <<"B", "R", "E", "W">>
ABC == <<"a", "b", "c">>
HI == <<"h", "i">>
BR == <<"b", "r">>
F == <<"f">>
G == <<"g">>
A_COLON_B == <<"a", ":", " ", "b">>
TEXT_HTML == <<"t", "e", "x", "t", "/", "h", "t", "m", "l">>
CLIENT == <<"c", "u", "r", "l", "/", "8">>
DOTDOT == <<".", ".">>
X_NOTE == <<"X", "-", "N", "o", "t", "e">>

Header(k, v) == k \o COLON_SPACE \o v
RequestLine(m, t) == m \o SPACE \o t \o SPACE \o HTTP11

RECURSIVE HeaderBlock(_)
HeaderBlock(hs) ==
    IF hs = <<>> THEN <<>> ELSE Head(hs) \o CRLF \o HeaderBlock(Tail(hs))

Message(m, t, hs, b) == RequestLine(m, t) \o CRLF \o HeaderBlock(hs) \o CRLF \o b

MethodTokens == HTTPMethod \cup {BREW}

Targets ==
    {HOME, ECHO, ECHO \o SLASH, ECHO \o SLASH \o ABC, ECHO \o SLASH \o F \o SLASH \o G,
     USER_AGENT_PATH, FILES, FILES \o SLASH, FILES \o SLASH \o F, FILES \o SLASH \o G,
     FILES \o SLASH \o F \o SLASH \o G, SLASH \o ABC, SLASH \o ABC \o SLASH \o F, ABC}

HeaderBlocks ==
    {<<>>,
     <<Header(USER_AGENT, CLIENT)>>,
     <<Header(USER_AGENT, A_COLON_B)>>,
     <<Header(X_NOTE, A_COLON_B)>>,
     <<Header(CONTENT_TYPE, TEXT_HTML)>>,
     <<Header(ACCEPT_ENCODING, GZIP)>>,
     <<Header(ACCEPT_ENCODING, BR)>>,
     <<Header(ACCEPT_ENCODING, BR \o COMMA_SPACE \o GZIP)>>,
     <<Header(ACCEPT_ENCODING, GZIP \o COMMA_SPACE \o BR)>>,
     <<Header(ACCEPT_ENCODING, BR \o <<",">> \o GZIP)>>,
     <<Header(USER_AGENT, CLIENT), Header(ACCEPT_ENCODING, BR \o COMMA_SPACE \o GZIP)>>}

Bodies == {<<>>, HI, A_COLON_B, <<"h", "\r", "i">>, Header(CONTENT_TYPE, TEXT_HTML)}

Malformed ==
    {GET \o SPACE \o HOME \o CRLF \o CRLF,
     GET \o SPACE \o SPACE \o HOME \o SPACE \o HTTP11 \o CRLF \o CRLF,
     GET \o SPACE \o ECHO \o SLASH \o <<"a", " ", "b">> \o SPACE \o HTTP11 \o CRLF \o CRLF,
     ABC}

Messages ==
    {Message(m, t, <<>>, <<>>) :
        m \in MethodTokens, t \in {HOME, ECHO \o SLASH \o ABC, FILES \o SLASH \o F, SLASH \o ABC}}
    \cup {Message(m, t, <<>>, <<>>) : m \in {GET, POST}, t \in Targets}
    \cup {Message(GET, t, hs, <<>>) :
            t \in {ECHO \o SLASH \o ABC, USER_AGENT_PATH, FILES \o SLASH \o F},
            hs \in HeaderBlocks}
    \cup {Message(POST, t, <<>>, b) :
            t \in {FILES, FILES \o SLASH, FILES \o SLASH \o F}, b \in Bodies}
    \cup {Message(POST, FILES \o SLASH \o G, hs, HI) :
            hs \in {<<>>, <<Header(CONTENT_TYPE, TEXT_HTML)>>,
                    <<Header(ACCEPT_ENCODING, BR \o COMMA_SPACE \o GZIP)>>,
                    <<Header(ACCEPT_ENCODING, BR)>>}}
    \cup {Message(GET, FILES \o SLASH \o DOTDOT, <<>>, <<>>),
          Message(POST, FILES \o SLASH \o DOTDOT, <<>>, HI)}
    \cup Malformed

(***************************************************************************)
(* The state                                                               *)
(***************************************************************************)
VARIABLES
    pc,         \* where handle_client is on each connection
    raw_data,   \* the bytes of the read being processed
    request,    \* the Request parse_request returned (Optional)
    resp,       \* the response bytes about to be handed to the writer
    outbuf,     \* the responses written to the writer and not yet drained
    files,      \* the content of self.directory: file name -> text
    posted,     \* file name -> the body the peer sent in the last POST that wrote it
    nread,      \* the number of non-empty reads of the connection
    nwritten    \* the number of responses written on the connection

vars == <<pc, raw_data, request, resp, outbuf, files, posted, nread, nwritten>>

\* the body of a message as the peer sent it: the bytes after the first blank line
RawBody(m) ==
    LET i == Find(m, CRLF \o CRLF)
    IN  IF i = 0 THEN <<>> ELSE SubSeq(m, i + 4, Len(m))

\* the task of a connection runs without suspension between the return of
\* reader.read and the await of writer.drain
Busy == {"PARSE", "DISPATCH", "WRITE"}
Running == {c \in Conns : pc[c] \in Busy}

EmptyDir == [n \in {} |-> <<>>]

Init ==
    /\ pc = [c \in Conns |-> "AWAIT_READ"]
    /\ raw_data = [c \in Conns |-> <<>>]
    /\ request = [c \in Conns |-> None]
    /\ resp = [c \in Conns |-> <<>>]
    /\ outbuf = [c \in Conns |-> <<>>]
    /\ files = EmptyDir
    /\ posted = EmptyDir
    /\ nread = [c \in Conns |-> 0]
    /\ nwritten = [c \in Conns |-> 0]

\* a variant in which a read returns while another task is between its read
\* and its write
Read_Unguarded(c) ==
    /\ pc[c] = "AWAIT_READ"
    /\ nread[c] < MaxReads
    /\ \E m \in Messages : raw_data' = [raw_data EXCEPT ![c] = m]
    /\ pc' = [pc EXCEPT ![c] = "PARSE"]
    /\ nread' = [nread EXCEPT ![c] = @ + 1]
    /\ UNCHANGED <<request, resp, outbuf, files, posted, nwritten>>

\* raw_data = await reader.read(self.bufsize), a non-empty read
Read(c) ==
    /\ Running = {}
    /\ pc[c] = "AWAIT_READ"
    /\ nread[c] < MaxReads
    /\ \E m \in Messages : raw_data' = [raw_data EXCEPT ![c] = m]
    /\ pc' = [pc EXCEPT ![c] = "PARSE"]
    /\ nread' = [nread EXCEPT ![c] = @ + 1]
    /\ UNCHANGED <<request, resp, outbuf, files, posted, nwritten>>

\* a read of zero bytes: break
ReadEOF(c) ==
    /\ Running = {}
    /\ pc[c] = "AWAIT_READ"
    /\ pc' = [pc EXCEPT ![c] = "CLOSED"]
    /\ UNCHANGED <<raw_data, request, resp, outbuf, files, posted, nread, nwritten>>

\* an exception leaves handle_client: the task of the connection ends
Propagate(c) ==
    /\ pc' = [pc EXCEPT ![c] = "RAISED"]
    /\ raw_data' = [raw_data EXCEPT ![c] = <<>>]
    /\ request' = [request EXCEPT ![c] = None]
    /\ resp' = [resp EXCEPT ![c] = <<>>]

\* request = await self.parse_request(raw_data), with its except clause
Parse(c) ==
    /\ pc[c] = "PARSE"
    /\ LET r == parse_request(raw_data[c])
       IN  IF Raised(r)
           THEN IF r.exc = "TargetNotFoundException"
                THEN /\ resp' = [resp EXCEPT ![c] = make_bad_request(404, NOT_FOUND)]
                     /\ pc' = [pc EXCEPT ![c] = "WRITE"]
                     /\ UNCHANGED <<raw_data, request>>
                ELSE Propagate(c)
           ELSE /\ request' = [request EXCEPT ![c] = Some(r)]
                /\ pc' = [pc EXCEPT ![c] = "DISPATCH"]
                /\ UNCHANGED <<raw_data, resp>>
    /\ UNCHANGED <<outbuf, files, posted, nread, nwritten>>

\* func = self.routes[request.method][request.target]; resp = await func(request)
Dispatch(c) ==
    /\ pc[c] = "DISPATCH"
    /\ LET rq == request[c][1]
           name == routes[rq.method][rq.target]
           r == wrapper(name, rq, files)
           wrote == /\ name = "post_file"
                    /\ ~no_params(rq)
                    /\ ~is_directory(rq.params[1])
       IN  /\ files' = IF name = "post_file" THEN post_file_write(rq, files) ELSE files
           /\ posted' = IF wrote
                         THEN [n \in DOMAIN posted \cup {rq.params[1]} |->
                                 IF n = rq.params[1] THEN RawBody(raw_data[c])
                                 ELSE posted[n]]
                         ELSE posted
           /\ IF Raised(r)
              THEN Propagate(c)
              ELSE /\ resp' = [resp EXCEPT ![c] = r.ret]
                   /\ pc' = [pc EXCEPT ![c] = "WRITE"]
                   /\ UNCHANGED <<raw_data, request>>
    /\ UNCHANGED <<outbuf, nread, nwritten>>

\* a variant that writes and loops back to the read without awaiting the drain
Write_NoDrain(c) ==
    /\ pc[c] = "WRITE"
    /\ outbuf' = [outbuf EXCEPT ![c] = Append(@, resp[c])]
    /\ nwritten' = [nwritten EXCEPT ![c] = @ + 1]
    /\ pc' = [pc EXCEPT ![c] = "AWAIT_READ"]
    /\ raw_data' = [raw_data EXCEPT ![c] = <<>>]
    /\ request' = [request EXCEPT ![c] = None]
    /\ resp' = [resp EXCEPT ![c] = <<>>]
    /\ UNCHANGED <<files, posted, nread>>

\* writer.write(resp), up to the suspension in await writer.drain()
Write(c) ==
    /\ pc[c] = "WRITE"
    /\ outbuf' = [outbuf EXCEPT ![c] = Append(@, resp[c])]
    /\ nwritten' = [nwritten EXCEPT ![c] = @ + 1]
    /\ pc' = [pc EXCEPT ![c] = "DRAIN"]
    /\ raw_data' = [raw_data EXCEPT ![c] = <<>>]
    /\ request' = [request EXCEPT ![c] = None]
    /\ resp' = [resp EXCEPT ![c] = <<>>]
    /\ UNCHANGED <<files, posted, nread>>

\* await writer.drain() returns: back to the top of the loop
Drain(c) ==
    /\ Running = {}
    /\ pc[c] = "DRAIN"
    /\ outbuf' = [outbuf EXCEPT ![c] = <<>>]
    /\ pc' = [pc EXCEPT ![c] = "AWAIT_READ"]
    /\ UNCHANGED <<raw_data, request, resp, files, posted, nread, nwritten>>

Next ==
    \E c \in Conns :
        \/ Read(c)
        \/ ReadEOF(c)
        \/ Parse(c)
        \/ Dispatch(c)
        \/ Write(c)
        \/ Drain(c)

Spec == Init /\ [][Next]_vars

(***************************************************************************)
(* Reading a message and a response as the peer does                       *)
(***************************************************************************)
StartsWith(s, p) == Len(s) >= Len(p) /\ SubSeq(s, 1, Len(p)) = p

\* the part of a message or response before the first blank line
HeadOf(m) ==
    LET i == Find(m, CRLF \o CRLF)
    IN  IF i = 0 THEN m ELSE SubSeq(m, 1, i - 1)

StartLineOf(m) == Head(split(HeadOf(m), CRLF))
HeaderLinesOf(m) == Tail(split(HeadOf(m), CRLF))

\* the values of the header lines `name: value`, in order
RECURSIVE ValuesIn(_, _)
ValuesIn(lines, name) ==
    IF lines = <<>> THEN <<>>
    ELSE (IF StartsWith(Head(lines), name \o COLON_SPACE)
          THEN <<SubSeq(Head(lines), Len(name) + 3, Len(Head(lines)))>>
          ELSE <<>>) \o ValuesIn(Tail(lines), name)

HeaderValues(m, name) == ValuesIn(HeaderLinesOf(m), name)

Tokens(m) == split(StartLineOf(m), SPACE)
ThreeTokens(m) == Len(Tokens(m)) = 3
MethodToken(m) == Tokens(m)[1]
TargetToken(m) == Tokens(m)[2]

KnownMethods ==
    {<<"G", "E", "T">>, <<"P", "O", "S", "T">>, <<"P", "U", "T">>,
     <<"P", "A", "T", "C", "H">>, <<"D", "E", "L", "E", "T", "E">>}

\* the route prefix of a target: the target without its trailing /parameter
RoutePrefix(t) ==
    IF count(t, "/") = 1 THEN t
    ELSE LET parts == split(t, SLASH)
         IN  removesuffix(t, SLASH \o parts[Len(parts)])

Registered(m, prefix) == m \in DOMAIN routes /\ prefix \in DOMAIN routes[m]

\* the message is `GET <prefix>/<p>` with a non-empty parameter p without '/'
IsGetWithParam(m, prefix) ==
    /\ ThreeTokens(m)
    /\ MethodToken(m) = <<"G", "E", "T">>
    /\ StartsWith(TargetToken(m), prefix \o SLASH)
    /\ Len(TargetToken(m)) > Len(prefix) + 1
    /\ ~Contains(SubSeq(TargetToken(m), Len(prefix) + 2, Len(TargetToken(m))), SLASH)

ParamOf(m, prefix) == SubSeq(TargetToken(m), Len(prefix) + 2, Len(TargetToken(m)))

NotFound404 ==
    <<"H", "T", "T", "P", "/", "1", ".", "1", " ", "4", "0", "4", " ",
      "N", "o", "t", " ", "F", "o", "u", "n", "d", "\r", "\n", "\r", "\n">>

BadRequest400 ==
    <<"H", "T", "T", "P", "/", "1", ".", "1", " ", "4", "0", "0", " ",
      "B", "a", "d", " ", "R", "e", "q", "u", "e", "s", "t", "\r", "\n", "\r", "\n">>

StatusLine200 ==
    <<"H", "T", "T", "P", "/", "1", ".", "1", " ", "2", "0", "0", " ", "O", "K">>

StatusLine201 ==
    <<"H", "T", "T", "P", "/", "1", ".", "1", " ", "2", "0", "1", " ",
      "C", "r", "e", "a", "t", "e", "d">>

Digits == {"0", "1", "2", "3", "4", "5", "6", "7", "8", "9"}

\* HTTP/1.1 <three digits> <reason>
WellFormedStatusLine(line) ==
    /\ Len(line) > 13
    /\ SubSeq(line, 1, 9) = <<"H", "T", "T", "P", "/", "1", ".", "1", " ">>
    /\ \A i \in 10..12 : line[i] \in Digits
    /\ line[13] = " "

\* a complete response: a well-formed status line, then a blank line
WellFormedResponse(r) ==
    /\ Contains(r, CRLF \o CRLF)
    /\ WellFormedStatusLine(StartLineOf(r))

Terminal == {"CLOSED", "RAISED"}

(***************************************************************************)
(* The claims                                                              *)
(***************************************************************************)

\* C1: a request with a known method token whose route prefix is not
\* registered for that method is answered with exactly
\* `HTTP/1.1 404 Not Found` CRLF CRLF.
C1_UnroutedAnswered404 ==
    [][\A c \in Conns :
         (/\ pc[c] = "PARSE"
          /\ pc'[c] # "PARSE"
          /\ ThreeTokens(raw_data[c])
          /\ MethodToken(raw_data[c]) \in KnownMethods
          /\ ~Registered(MethodToken(raw_data[c]), RoutePrefix(TargetToken(raw_data[c]))))
         => (pc'[c] = "WRITE" /\ resp'[c] = NotFound404)]_vars

\* C2: a request whose method token is unknown, or whose request line is not
\* three space-separated tokens, is answered with the bare 404 response.
C2_ParseFailureAnswered404 ==
    [][\A c \in Conns :
         (/\ pc[c] = "PARSE"
          /\ pc'[c] # "PARSE"
          /\ (~ThreeTokens(raw_data[c]) \/ MethodToken(raw_data[c]) \notin KnownMethods))
         => (pc'[c] = "WRITE" /\ resp'[c] = NotFound404)]_vars

\* C3: the loop of a connection ends only by a read of zero bytes: a
\* connection enters a terminal state only from AWAIT_READ, never while a
\* non-empty read is being processed.
C3_EndsOnlyOnEmptyRead ==
    [][\A c \in Conns :
         (pc[c] \notin Terminal /\ pc'[c] \in Terminal)
         => (pc[c] = "AWAIT_READ" /\ pc'[c] = "CLOSED")]_vars

\* C4: every non-empty read is answered by one complete response with a
\* well-formed status line: a connection that waits for its next read or
\* has ended has written as many responses as it has read requests, and
\* everything handed to the writer is a complete well-formed response.
C4_EveryReadAnswered ==
    \A c \in Conns :
        /\ pc[c] \in Terminal \cup {"AWAIT_READ"} => nwritten[c] = nread[c]
        /\ \A i \in 1..Len(outbuf[c]) : WellFormedResponse(outbuf[c][i])

\* C5: no read begins before the response to the previous read is written
\* and drained; at most one request of a connection is in flight, and the
\* k-th response is written after the k-th read and before the next one.
C5_OneRequestAtATime ==
    \A c \in Conns :
        /\ pc[c] \in Busy \cup {"AWAIT_READ"} => outbuf[c] = <<>>
        /\ Len(outbuf[c]) <= 1
        /\ pc[c] \in Busy => nread[c] = nwritten[c] + 1
        /\ pc[c] \in {"AWAIT_READ", "DRAIN", "CLOSED"} => nwritten[c] = nread[c]
        /\ pc[c] = "DRAIN" => Len(outbuf[c]) = 1

\* C5 witness: a second request of a connection has been answered
C5_Witness ==
    \E c \in Conns : pc[c] = "DRAIN" /\ nread[c] = 2 /\ nwritten[c] = 2

\* C6: GET /echo/ is answered with exactly `HTTP/1.1 400 Bad Request` CRLF CRLF.
C6_EchoSlashIs400 ==
    \A c \in Conns :
        (/\ pc[c] = "WRITE"
         /\ StartLineOf(raw_data[c])
              = <<"G", "E", "T", " ", "/", "e", "c", "h", "o", "/", " ",
                  "H", "T", "T", "P", "/", "1", ".", "1">>)
        => resp[c] = BadRequest400

\* C7: GET /echo/p with a non-empty p without '/' is answered with 200 OK,
\* Content-Length equal to the length of p, and body exactly p.
C7_EchoReturnsParam ==
    [][\A c \in Conns :
         (/\ pc[c] \in {"PARSE", "DISPATCH"}
          /\ IsGetWithParam(raw_data[c], ECHO)
          /\ pc'[c] # pc[c])
         => /\ pc'[c] \in {"DISPATCH", "WRITE"}
            /\ pc'[c] = "WRITE" =>
                 /\ StartLineOf(resp'[c]) = StatusLine200
                 /\ HeaderValues(resp'[c], CONTENT_LENGTH)
                      = <<str(Len(ParamOf(raw_data[c], ECHO)))>>
                 /\ RawBody(resp'[c]) = ParamOf(raw_data[c], ECHO)]_vars

\* Whenever GET /echo/p is answered at all, the answer is the one C7 names.
EchoAnswerShape ==
    \A c \in Conns :
        (pc[c] = "WRITE" /\ IsGetWithParam(raw_data[c], ECHO))
        => /\ StartLineOf(resp[c]) = StatusLine200
           /\ HeaderValues(resp[c], CONTENT_LENGTH)
                = <<str(Len(ParamOf(raw_data[c], ECHO)))>>
           /\ RawBody(resp[c]) = ParamOf(raw_data[c], ECHO)

\* C8: GET /user-agent with a User-Agent header of value v is answered with
\* 200 OK and body exactly v; without a User-Agent header, with the bare
\* 400 response.  (Stated for the requests that carry no other header.)
C8_UserAgentReflected ==
    [][\A c \in Conns :
         (/\ pc[c] \in {"PARSE", "DISPATCH"}
          /\ ThreeTokens(raw_data[c])
          /\ MethodToken(raw_data[c]) = <<"G", "E", "T">>
          /\ TargetToken(raw_data[c]) = USER_AGENT_PATH
          /\ Len(HeaderLinesOf(raw_data[c])) <= 1
          /\ Len(HeaderValues(raw_data[c], USER_AGENT)) = Len(HeaderLinesOf(raw_data[c]))
          /\ pc'[c] # pc[c])
         => /\ pc'[c] \in {"DISPATCH", "WRITE"}
            /\ pc'[c] = "WRITE" =>
                 IF HeaderValues(raw_data[c], USER_AGENT) = <<>>
                 THEN resp'[c] = BadRequest400
                 ELSE /\ StartLineOf(resp'[c]) = StatusLine200
                      /\ RawBody(resp'[c]) = HeaderValues(raw_data[c], USER_AGENT)[1]]_vars

\* a non-empty text of one line
SingleLine(b) == b # <<>> /\ \A i \in 1..Len(b) : b[i] \notin {"\r", "\n"}

\* C9: after an answered POST /files/n with a non-empty single-line body b,
\* a GET /files/n without a Content-Type header is answered with 200,
\* Content-Type: application/octet-stream, Content-Length of b and body b.
C9_PostThenGetRoundTrip ==
    \A c \in Conns :
        (/\ pc[c] = "WRITE"
         /\ IsGetWithParam(raw_data[c], FILES)
         /\ HeaderValues(raw_data[c], CONTENT_TYPE) = <<>>
         /\ ParamOf(raw_data[c], FILES) \in DOMAIN posted
         /\ SingleLine(posted[ParamOf(raw_data[c], FILES)]))
        => LET b == posted[ParamOf(raw_data[c], FILES)]
           IN  /\ StartLineOf(resp[c]) = StatusLine200
               /\ HeaderValues(resp[c], CONTENT_TYPE) = <<OCTET_STREAM>>
               /\ HeaderValues(resp[c], CONTENT_LENGTH) = <<str(Len(b))>>
               /\ RawBody(resp[c]) = b

\* the listed encodings that the server supports, in the order listed
RECURSIVE SupportedAmong(_)
SupportedAmong(encs) ==
    IF encs = <<>> THEN <<>>
    ELSE (IF Head(encs) = <<"g", "z", "i", "p">> THEN <<Head(encs)>> ELSE <<>>)
         \o SupportedAmong(Tail(encs))

\* a parsed request without one of its headers
WithoutHeader(rq, name) ==
    [rq EXCEPT !.headers = [k \in DOMAIN rq.headers \ {name} |-> rq.headers[k]]]

HasParam(m, method, prefix) ==
    /\ ThreeTokens(m)
    /\ MethodToken(m) = method
    /\ StartsWith(TargetToken(m), prefix \o SLASH)
    /\ Len(TargetToken(m)) > Len(prefix) + 1
    /\ ~Contains(SubSeq(TargetToken(m), Len(prefix) + 2, Len(TargetToken(m))), SLASH)

\* C11: a routed request whose handler precondition fails gets a status-only
\* response and nothing is raised into handle_client: GET /echo, GET /files
\* and POST /files without parameter are answered 400, and GET /files/<name>
\* of an absent or unreadable file is answered 404.
C11_HandlerFailuresBecomeStatus ==
    [][\A c \in Conns :
         (pc[c] = "DISPATCH" /\ pc'[c] # "DISPATCH")
         => LET m == raw_data[c]
            IN  /\ (<<MethodToken(m), TargetToken(m)>>
                      \in {<<<<"G", "E", "T">>, ECHO>>, <<<<"G", "E", "T">>, FILES>>,
                           <<<<"P", "O", "S", "T">>, FILES>>})
                   => (pc'[c] = "WRITE" /\ resp'[c] = BadRequest400)
                /\ (/\ HasParam(m, <<"G", "E", "T">>, FILES)
                    /\ \/ ParamOf(m, FILES) \notin DOMAIN files
                       \/ ParamOf(m, FILES) \in {<<".">>, <<".", ".">>})
                   => (pc'[c] = "WRITE" /\ resp'[c] = NotFound404)]_vars

\* C11 witness: GET /files/.. (a directory, unreadable) answered 404
C11_Witness ==
    \E c \in Conns :
        /\ pc[c] = "WRITE"
        /\ request[c] # None
        /\ HasParam(raw_data[c], <<"G", "E", "T">>, FILES)
        /\ ParamOf(raw_data[c], FILES) = <<".", ".">>
        /\ resp[c] = NotFound404

\* the number a text of decimal digits denotes, -1 when it is not one
RECURSIVE Decimal(_)
Decimal(t) ==
    IF t = <<>> THEN -1
    ELSE LET d == CHOOSE i \in 0..10 :
                    \/ (i < 10 /\ <<"0", "1", "2", "3", "4", "5", "6", "7", "8", "9">>[i + 1]
                                    = t[Len(t)])
                    \/ (i = 10 /\ t[Len(t)] \notin Digits)
         IN  IF d = 10 THEN -1
             ELSE IF Len(t) = 1 THEN d
             ELSE IF Decimal(SubSeq(t, 1, Len(t) - 1)) < 0 THEN -1
             ELSE 10 * Decimal(SubSeq(t, 1, Len(t) - 1)) + d

Success(r) == StartLineOf(r) \in {StatusLine200, StatusLine201}

\* C12: a 200/201 response has exactly one Content-Length header, it is the
\* last header line before the blank line, and its value is the number of
\* body bytes that follow the blank line.
C12_ContentLengthExact ==
    \A c \in Conns :
        (pc[c] = "WRITE" /\ Success(resp[c]))
        => LET hl == HeaderLinesOf(resp[c])
               cl == HeaderValues(resp[c], CONTENT_LENGTH)
           IN  /\ Len(cl) = 1
               /\ Decimal(cl[1]) = Len(RawBody(resp[c]))
               /\ StartsWith(hl[Len(hl)], CONTENT_LENGTH \o COLON_SPACE)

\* C12 witness: a 200 response with a body of three bytes
C12_Witness ==
    \E c \in Conns :
        /\ pc[c] = "WRITE"
        /\ StartLineOf(resp[c]) = StatusLine200
        /\ Len(RawBody(resp[c])) = 3
        /\ HeaderValues(resp[c], CONTENT_LENGTH) = << <<"3">> >>

C14_ErrorResponsesBare ==
    \A c \in Conns :
        (/\ pc[c] = "WRITE"
         /\ StartsWith(resp[c], <<"H", "T", "T", "P", "/", "1", ".", "1", " ", "4">>))
        => resp[c] \in {BadRequest400, NotFound404}

\* C14 witness: a 400 response to a request that carries a Content-Type header
C14_Witness ==
    \E c \in Conns :
        /\ pc[c] = "WRITE"
        /\ HeaderValues(raw_data[c], CONTENT_TYPE) # <<>>
        /\ resp[c] = BadRequest400

\* C15: the files change only in the dispatch of a POST /files/<p> with a
\* non-empty p, and only the file p changes; every other step, so every
\* GET and every request answered 400 or 404, leaves all files unchanged,
\* and the body of a 200 answer to GET /files/<name> is the content the
\* file has before and after the GET, the same for a repeated GET.
C15_OnlyPostFileWrites ==
    [][/\ files' # files
          => \E c \in Conns :
               /\ pc[c] = "DISPATCH"
               /\ pc'[c] = "WRITE"
               /\ HasParam(raw_data[c], <<"P", "O", "S", "T">>, FILES)
               /\ StartLineOf(resp'[c]) = StatusLine201
               /\ \A n \in (DOMAIN files \cup DOMAIN files')
                            \ {ParamOf(raw_data[c], FILES)} :
                    n \in DOMAIN files /\ n \in DOMAIN files' /\ files'[n] = files[n]
       /\ \A c \in Conns :
            (/\ pc[c] = "DISPATCH"
             /\ pc'[c] = "WRITE"
             /\ HasParam(raw_data[c], <<"G", "E", "T">>, FILES)
             /\ StartLineOf(resp'[c]) = StatusLine200)
            => /\ files' = files
               /\ RawBody(resp'[c])
                    = universal_newlines(files[ParamOf(raw_data[c], FILES)])]_vars

\* C15 witness: two files written by two POSTs, the first left as it was
C15_Witness ==
    /\ <<"f">> \in DOMAIN files
    /\ <<"g">> \in DOMAIN files
    /\ files[<<"f">>] = <<"h", "i">>

\* the header lines of a message, split at the first ": "
NameOf(line) == SubSeq(line, 1, Find(line, COLON_SPACE) - 1)
ValueOf(line) == SubSeq(line, Find(line, COLON_SPACE) + 2, Len(line))

\* C16: a header line is split at its first ": " only: `User-Agent: a: b`
\* is stored as User-Agent -> `a: b`, and the request is dispatched.
C16_HeaderSplitAtFirstSeparator ==
    [][\A c \in Conns :
         (/\ pc[c] = "PARSE"
          /\ pc'[c] # "PARSE"
          /\ ThreeTokens(raw_data[c])
          /\ MethodToken(raw_data[c]) \in KnownMethods
          /\ Registered(MethodToken(raw_data[c]), RoutePrefix(TargetToken(raw_data[c]))))
         => /\ pc'[c] = "DISPATCH"
            /\ LET hl == HeaderLinesOf(raw_data[c])
               IN  \A i \in 1..Len(hl) :
                     (/\ Contains(hl[i], COLON_SPACE)
                      /\ \A j \in (i + 1)..Len(hl) :
                           ~StartsWith(hl[j], NameOf(hl[i]) \o COLON_SPACE))
                     => /\ NameOf(hl[i]) \in DOMAIN request'[c][1].headers
                        /\ request'[c][1].headers[NameOf(hl[i])] = ValueOf(hl[i])]_vars

\* C17: only the lines before the first blank line are headers: a body line
\* is never added to the header map, it is kept as Request.body, and
\* POST /files/<name> writes it verbatim.
C17_BodyLineIsNotAHeader ==
    [][\A c \in Conns :
         /\ (pc[c] = "PARSE" /\ pc'[c] = "DISPATCH")
            => LET hl == HeaderLinesOf(raw_data[c])
               IN  /\ \A k \in DOMAIN request'[c][1].headers :
                         \E i \in 1..Len(hl) : StartsWith(hl[i], k \o COLON_SPACE)
                   /\ (RawBody(raw_data[c]) = <<>> \/ SingleLine(RawBody(raw_data[c])))
                      => request'[c][1].body = RawBody(raw_data[c])
         /\ (/\ pc[c] = "DISPATCH"
             /\ pc'[c] = "WRITE"
             /\ HasParam(raw_data[c], <<"P", "O", "S", "T">>, FILES)
             /\ StartLineOf(resp'[c]) = StatusLine201
             /\ SingleLine(RawBody(raw_data[c])))
            => files'[ParamOf(raw_data[c], FILES)] = RawBody(raw_data[c])]_vars

\* C18: the (method, target) of every Request that parse_request returned
\* is registered in the route table, so the lookup of the dispatch succeeds.
C18_ParsedRequestIsRouted ==
    \A c \in Conns :
        request[c] # None
        => /\ request[c][1].method \in DOMAIN routes
           /\ request[c][1].target \in DOMAIN routes[request[c][1].method]

\* C18 witness: GET /echo/abc parsed into target /echo, about to be dispatched
C18_Witness ==
    \E c \in Conns :
        /\ pc[c] = "DISPATCH"
        /\ TargetToken(raw_data[c]) = <<"/", "e", "c", "h", "o", "/", "a", "b", "c">>
        /\ request[c][1].target = <<"/", "e", "c", "h", "o">>

\* C19: at most one connection is between the return of its read and the
\* hand-over of its response, and a GET /files/x answered 200 carries the
\* complete content the file holds then: no other connection's step ran
\* in between, so the content is never a mixture.
C19_NoInterleavingBetweenAwaits ==
    /\ Cardinality({c \in Conns : pc[c] \in {"PARSE", "DISPATCH", "WRITE"}}) <= 1
    /\ \A c \in Conns :
         (/\ pc[c] = "WRITE"
          /\ HasParam(raw_data[c], <<"G", "E", "T">>, FILES)
          /\ StartLineOf(resp[c]) = StatusLine200)
         => /\ ParamOf(raw_data[c], FILES) \in DOMAIN files
            /\ RawBody(resp[c]) = universal_newlines(files[ParamOf(raw_data[c], FILES)])

\* C19 witness: a GET /files/f answered with the new body while the 201 of
\* the POST on the other connection is not yet drained
C19_Witness ==
    \E c, d \in Conns :
        /\ c # d
        /\ pc[c] = "DRAIN"
        /\ StartLineOf(outbuf[c][1]) = StatusLine201
        /\ pc[d] = "WRITE"
        /\ HasParam(raw_data[d], <<"G", "E", "T">>, FILES)
        /\ ParamOf(raw_data[d], FILES) = <<"f">>
        /\ RawBody(resp[d]) = <<"h", "i">>

\* the target has more than one segment after a route prefix of the method
ManySegments(m) ==
    /\ ThreeTokens(m)
    /\ MethodToken(m) \in DOMAIN routes
    /\ \E p \in DOMAIN routes[MethodToken(m)] :
         /\ StartsWith(TargetToken(m), p \o SLASH)
         /\ Contains(SubSeq(TargetToken(m), Len(p) + 2, Len(TargetToken(m))), SLASH)

\* C20: the params of a constructed Request is None exactly when the raw
\* target has one '/', else a text without '/', and target is the raw
\* target without the trailing '/' + params; a target with more than one
\* segment after a route prefix is answered 404 and reaches no handler.
C20_ParamsHaveNoSlash ==
    [][\A c \in Conns :
         (pc[c] = "PARSE" /\ pc'[c] # "PARSE")
         => /\ pc'[c] = "DISPATCH"
               => LET rq == request'[c][1]
                      raw == TargetToken(raw_data[c])
                  IN  /\ rq.params = None <=> count(raw, "/") = 1
                      /\ rq.params = None => rq.target = raw
                      /\ rq.params # None
                         => /\ ~Contains(rq.params[1], SLASH)
                            /\ rq.target \o SLASH \o rq.params[1] = raw
            /\ ManySegments(raw_data[c])
               => /\ pc'[c] = "WRITE"
                  /\ resp'[c] = NotFound404
                  /\ request'[c] = None]_vars

\* C20 witness: GET /files/f/g answered 404 without a Request
C20_Witness ==
    \E c \in Conns :
        /\ pc[c] = "WRITE"
        /\ TargetToken(raw_data[c]) = <<"/", "f", "i", "l", "e", "s", "/", "f", "/", "g">>
        /\ request[c] = None
        /\ resp[c] = NotFound404

====
